---------------------------- MODULE Spec2Model ----------------------------
(***************************************************************************)
(* Model of src/main/cpp/TestCase.cpp: bilinear interpolation over a       *)
(* raster whose missing cells are encoded either as "no data" sentinel     *)
(* values (TestNodata) or as NaN bit patterns (TestNaN), verified against  *)
(* expected results and cross-checked by TestNodata::testAndCompare.       *)
(*                                                                         *)
(* Number representation.                                                  *)
(*  - A 32-bit or 64-bit word is the tuple of its bytes, most significant  *)
(*    first.  Shifts by multiples of 8 bits, byte-aligned masks and        *)
(*    bitwise OR are computed on those bytes.                              *)
(*  - A `float` held in memory is its IEEE 754 bit pattern as a signed     *)
(*    32-bit integer (what reinterpret_cast<int32_t*> reads).              *)
(*  - A `double` value is a fixed-point integer counting units of          *)
(*    1/SCALE (SCALE = 2^FracBits), or the reserved element NaN.  fma is   *)
(*    a*b+c rounded once, to the nearest unit.  Magnitudes beyond DMAX     *)
(*    units are outside the modelled range and saturate.                   *)
(***************************************************************************)
EXTENDS Integers, Sequences, FiniteSets, TLC

\* ------------------------------------------------------------------------
\* Program constants and bounds of the model
\* ------------------------------------------------------------------------

\* Raster size in pixels (800 x 600 in the program, scaled down here).
WIDTH == 3
HEIGHT == 3

\* Number of points where to interpolate (20000 in the program).
NUM_INTERPOLATION_POINTS == 2

NUM_VERIFIED_ITERATIONS == 10

MISSING_VALUE_THRESHOLD == 10000

\* Bit pattern 0x7FC00000 of the first positive quiet NaN.
FIRST_QUIET_NAN == 2143289344

\* Number of fractional bits of the fixed-point grid standing for `double`.
FracBits == 2

RECURSIVE Pow2(_)
Pow2(n) == IF n <= 0 THEN 1 ELSE 2 * Pow2(n - 1)

SCALE == Pow2(FracBits)

\* Largest magnitude, in units, of a modelled double (2^14 = 16384 > 10003).
DMAX == 16384 * SCALE

\* The reserved element standing for a double NaN (outside -DMAX..DMAX).
NaN == 0 - Pow2(30)

isnan(d) == d = NaN

Max(a, b) == IF a < b THEN b ELSE a

Abs(a) == IF a < 0 THEN -a ELSE a

Saturate(n) == IF n > DMAX THEN DMAX ELSE IF n < -DMAX THEN -DMAX ELSE n

\* n / d rounded to the nearest integer, ties to even (d > 0).
RoundDiv(n, d) ==
    LET q == n \div d
        r == n % d
    IN  IF 2 * r < d THEN q
        ELSE IF 2 * r > d THEN q + 1
        ELSE IF q % 2 = 0 THEN q ELSE q + 1

\* ------------------------------------------------------------------------
\* Words as byte tuples
\* ------------------------------------------------------------------------

RECURSIVE BitOr(_, _)
BitOr(a, b) ==
    IF a = 0 THEN b
    ELSE IF b = 0 THEN a
    ELSE 2 * BitOr(a \div 2, b \div 2) + Max(a % 2, b % 2)

RECURSIVE BitAnd(_, _)
BitAnd(a, b) ==
    IF a = 0 \/ b = 0 THEN 0
    ELSE 2 * BitAnd(a \div 2, b \div 2) + (IF a % 2 = 1 /\ b % 2 = 1 THEN 1 ELSE 0)

\* v >> 8k: the k least significant bytes fall off, zero bytes enter on the left.
ShiftRightBytes(v, k) ==
    [j \in 1..Len(v) |-> IF j <= k THEN 0 ELSE v[j - k]]

\* v << 8k, truncated to the width of v.
ShiftLeftBytes(v, k) ==
    [j \in 1..Len(v) |-> IF j + k > Len(v) THEN 0 ELSE v[j + k]]

WordAnd(v, mask) == [j \in 1..Len(v) |-> BitAnd(v[j], mask[j])]

WordOr(a, b) == [j \in 1..Len(a) |-> BitOr(a[j], b[j])]

\* The bit pattern of a 4-byte word read as int32_t.
ToInt32(w) ==
    (IF w[1] >= 128 THEN w[1] - 256 ELSE w[1]) * 16777216
        + w[2] * 65536 + w[3] * 256 + w[4]

\* The word a CPU of byte order `order` reads from `n` bytes of memory at
\* byte position `pos` (1-based) of `bytes`.
WordAt(bytes, pos, n, order) ==
    [j \in 1..n |-> IF order = "big" THEN bytes[pos + j - 1] ELSE bytes[pos + n - j]]



\* ------------------------------------------------------------------------
\* Byte order normalisation and file loading
\* ------------------------------------------------------------------------

NULL == <<>>

\* The per-element swap of loadRaster: (v >> 24) | ((v << 8) & 0x00FF0000)
\* | ((v >> 8) & 0x0000FF00) | (v << 24).
Swap32(v) ==
    WordOr(WordOr(WordOr(ShiftRightBytes(v, 3),
                         WordAnd(ShiftLeftBytes(v, 1), <<0, 255, 0, 0>>)),
                  WordAnd(ShiftRightBytes(v, 1), <<0, 0, 255, 0>>)),
           ShiftLeftBytes(v, 3))

\* Swap64 with byte 2 shifted by 16 bits instead of 24.
Swap64_WrongShift(v) ==
    WordOr(WordOr(WordOr(WordOr(WordOr(WordOr(WordOr(
        ShiftRightBytes(v, 7),
        WordAnd(ShiftLeftBytes(v, 5), <<0, 255, 0, 0, 0, 0, 0, 0>>)),
        WordAnd(ShiftLeftBytes(v, 2), <<0, 0, 255, 0, 0, 0, 0, 0>>)),
        WordAnd(ShiftLeftBytes(v, 1), <<0, 0, 0, 255, 0, 0, 0, 0>>)),
        WordAnd(ShiftRightBytes(v, 1), <<0, 0, 0, 0, 255, 0, 0, 0>>)),
        WordAnd(ShiftRightBytes(v, 3), <<0, 0, 0, 0, 0, 255, 0, 0>>)),
        WordAnd(ShiftRightBytes(v, 5), <<0, 0, 0, 0, 0, 0, 255, 0>>)),
        ShiftLeftBytes(v, 7))

\* The per-element swap of toNativeByteOrder.
Swap64(v) ==
    WordOr(WordOr(WordOr(WordOr(WordOr(WordOr(WordOr(
        ShiftRightBytes(v, 7),
        WordAnd(ShiftLeftBytes(v, 5), <<0, 255, 0, 0, 0, 0, 0, 0>>)),
        WordAnd(ShiftLeftBytes(v, 3), <<0, 0, 255, 0, 0, 0, 0, 0>>)),
        WordAnd(ShiftLeftBytes(v, 1), <<0, 0, 0, 255, 0, 0, 0, 0>>)),
        WordAnd(ShiftRightBytes(v, 1), <<0, 0, 0, 0, 255, 0, 0, 0>>)),
        WordAnd(ShiftRightBytes(v, 3), <<0, 0, 0, 0, 0, 255, 0, 0>>)),
        WordAnd(ShiftRightBytes(v, 5), <<0, 0, 0, 0, 0, 0, 255, 0>>)),
        ShiftLeftBytes(v, 7))

\* A file is [exists, bytes].  NULL when the file cannot be opened or holds
\* fewer than numBytes bytes; otherwise its first numBytes bytes.
readAllBytes(file, numBytes) ==
    IF file.exists /\ Len(file.bytes) >= numBytes
    THEN SubSeq(file.bytes, 1, numBytes)
    ELSE NULL

\* The words of the raster in memory after loadRaster, NULL if not loaded.
loadRasterWords(file, fileOrder, nativeOrder) ==
    LET bytes == readAllBytes(file, WIDTH * HEIGHT * 4)
    IN  IF bytes = NULL THEN NULL
        ELSE [k \in 1..(WIDTH * HEIGHT) |->
                LET v == WordAt(bytes, 4 * (k - 1) + 1, 4, nativeOrder)
                IN  IF nativeOrder # fileOrder THEN Swap32(v) ELSE v]

\* float* raster, each element as the int32_t holding its bit pattern.
loadRaster(file, fileOrder, nativeOrder) ==
    LET words == loadRasterWords(file, fileOrder, nativeOrder)
    IN  [k \in 1..Len(words) |-> ToInt32(words[k])]

\* The words of a buffer of numValues 64-bit values after toNativeByteOrder.
toNativeByteOrder(bytes, numValues, nativeOrder) ==
    IF bytes = NULL THEN NULL
    ELSE [k \in 1..numValues |->
            LET v == WordAt(bytes, 8 * (k - 1) + 1, 8, nativeOrder)
            IN  IF nativeOrder = "little" THEN Swap64(v) ELSE v]

\* ------------------------------------------------------------------------
\* IEEE 754 values
\* ------------------------------------------------------------------------

\* Magnitude bits (sign bit cleared) of a signed 32-bit pattern.
MagnitudeBits(bits) == IF bits < 0 THEN (bits + 2147483647) + 1 ELSE bits

\* The value, in units of 1/SCALE, of the binary floating-point number with
\* the given sign, biased exponent e and mantissa m of mantBits bits.
IEEEValue(negative, e, m, mantBits, bias, emax) ==
    IF e = emax THEN (IF m # 0 THEN NaN ELSE IF negative THEN -DMAX ELSE DMAX)
    ELSE LET shift == (e - bias - mantBits) + FracBits
             sig   == IF e = 0 THEN m ELSE Pow2(mantBits) + m
             mag   == IF e = 0 THEN 0
                      ELSE IF shift >= 0
                           THEN (IF shift > 30 - mantBits THEN DMAX
                                 ELSE Saturate(sig * Pow2(shift)))
                           ELSE (IF -shift > 30 THEN 0
                                 ELSE RoundDiv(sig, Pow2(-shift)))
         IN  IF negative THEN -mag ELSE mag

\* (double) f for a float given by its bit pattern.
FloatValue(bits) ==
    LET mag == MagnitudeBits(bits)
    IN  IEEEValue(bits < 0, mag \div 8388608, mag % 8388608, 23, 127, 255)

\* The double held by a 64-bit word.  The 32 low mantissa bits lie below the
\* resolution of the fixed-point grid for every magnitude up to DMAX; they
\* only tell a NaN from an infinity.
DoubleValue(w) ==
    LET hi  == ToInt32(SubSeq(w, 1, 4))
        lo  == SubSeq(w, 5, 8)
        mag == MagnitudeBits(hi)
        e   == mag \div 1048576
        m   == mag % 1048576
    IN  IF e = 2047 /\ lo # <<0, 0, 0, 0>> THEN NaN
        ELSE IEEEValue(hi < 0, e, m, 20, 1023, 2047)

loadDoubles(file, numValues, nativeOrder) ==
    LET words == toNativeByteOrder(readAllBytes(file, numValues * 8), numValues, nativeOrder)
    IN  [k \in 1..Len(words) |-> DoubleValue(words[k])]

loadCoordinates(file, nativeOrder) ==
    loadDoubles(file, 2 * NUM_INTERPOLATION_POINTS, nativeOrder)

loadExpectedResults(file, nativeOrder) ==
    loadDoubles(file, NUM_INTERPOLATION_POINTS * NUM_VERIFIED_ITERATIONS, nativeOrder)

\* ------------------------------------------------------------------------
\* The generated-data directory
\* ------------------------------------------------------------------------

\* The four test cases of testAndCompare, in the order they run:
\* this (the reference), nodataLittleEndian, nanBigEndian, nanLittleEndian.
Harness == 0..3

useNaN(h) == h >= 2

byteOrder(h) == IF h \in {0, 2} THEN "big" ELSE "little"

directory(h) == IF useNaN(h) THEN "nan" ELSE "nodata"

Directories == {"nodata", "nan"}

\* float bit patterns (as words) of valid samples: -100.0f, 0.5f, 2.0f, 0.0f.
ValidFloats ==
    << <<194, 200, 0, 0>>, <<63, 0, 0, 0>>, <<64, 0, 0, 0>>, <<0, 0, 0, 0>> >>

\* TestNodata::UNKNOWN, CLOUD, LAND, NO_PASS: 10000.0f + r as a float word.
SentinelWord(r) == <<70, 28, 64 + 4 * r, 0>>

\* TestNaN::UNKNOWN, CLOUD, LAND, NO_PASS: FIRST_QUIET_NAN + r as a word.
NaNWord(r) == <<127, 192, 0, r>>

Reasons == 0..3

\* Logical raster images: a cell is <<r, j>>, missing for reason r when
\* r >= 0 and otherwise the valid sample ValidFloats[j].  The image "flat"
\* is 0.0f everywhere.
LogicalCell(image, k) ==
    IF image = "flat" THEN <<-1, 4>>
    ELSE IF image = "mixed" /\ k % 4 = 3
    THEN <<(k \div 4) % 4, 1>>
    ELSE <<-1, (k % 3) + 1>>

CellWord(image, nan, k) ==
    LET c == LogicalCell(image, k)
    IN  IF c[1] < 0 THEN ValidFloats[c[2]]
        ELSE IF nan THEN NaNWord(c[1]) ELSE SentinelWord(c[1])

AbsentFile == [exists |-> FALSE, bytes |-> <<>>]

\* The file holding the given sequence of words, each of n bytes, written in
\* byte order `order`.
FileOfWords(words, n, order) ==
    [exists |-> TRUE,
     bytes  |-> [p \in 1..(Len(words) * n) |->
                    LET w == words[((p - 1) \div n) + 1]
                        j == ((p - 1) % n) + 1
                    IN  IF order = "big" THEN w[j] ELSE w[n + 1 - j]]]

\* A file that ends one byte early.
Truncated(file) ==
    [exists |-> TRUE, bytes |-> SubSeq(file.bytes, 1, Len(file.bytes) - 1)]

RasterImages == {"valid", "mixed", "flat", "absent", "short"}

\* <directory>/big-endian.raw or little-endian.raw of test case h.  The
\* image "short" is the image "valid" cut one byte early.
rasterFile(image, h) ==
    LET content == IF image = "short" THEN "valid" ELSE image
        full == FileOfWords([k \in 1..(WIDTH * HEIGHT) |-> CellWord(content, useNaN(h), k - 1)],
                            4, byteOrder(h))
    IN  IF image = "absent" THEN AbsentFile
        ELSE IF image = "short" THEN Truncated(full)
        ELSE full

\* double words of n/4 for n in 0..6, and of small integers.
QuarterDouble(n) ==
    CASE n = 0 -> <<0, 0, 0, 0, 0, 0, 0, 0>>
      [] n = 1 -> <<63, 208, 0, 0, 0, 0, 0, 0>>
      [] n = 2 -> <<63, 224, 0, 0, 0, 0, 0, 0>>
      [] n = 3 -> <<63, 232, 0, 0, 0, 0, 0, 0>>
      [] n = 4 -> <<63, 240, 0, 0, 0, 0, 0, 0>>
      [] n = 5 -> <<63, 244, 0, 0, 0, 0, 0, 0>>
      [] OTHER -> <<63, 248, 0, 0, 0, 0, 0, 0>>

IntDouble(n) ==
    CASE n = 0 -> <<0, 0, 0, 0, 0, 0, 0, 0>>
      [] n = 1 -> <<63, 240, 0, 0, 0, 0, 0, 0>>
      [] n = 2 -> <<64, 0, 0, 0, 0, 0, 0, 0>>
      [] n = 3 -> <<64, 8, 0, 0, 0, 0, 0, 0>>
      [] n = 4 -> <<64, 16, 0, 0, 0, 0, 0, 0>>
      [] OTHER -> <<64, 20, 0, 0, 0, 0, 0, 0>>

\* The double 10000 + r, as the expected-results file stores a missing result.
SentinelDouble(r) == <<64, 195, 136 + (r \div 2), 128 * (r % 2), 0, 0, 0, 0>>

CoordinateImages == {"inside", "edge", "outside", "absent"}

\* Coordinates (x, y) of point i, in quarters, of the image "inside":
\* all in [0, WIDTH-1) x [0, HEIGHT-1).
InsideQuarters(i) ==
    CASE i % 3 = 0 -> <<2, 1>>
      [] i % 3 = 1 -> <<5, 4>>
      [] OTHER     -> <<6, 3>>

\* "edge" puts point 0 at (WIDTH-1, HEIGHT-2) and "outside" puts the last
\* point at (0.5, HEIGHT).
CoordinateWord(image, k) ==
    LET i == k \div 2
        q == InsideQuarters(i)[(k % 2) + 1]
    IN  IF image = "edge" /\ i = 0
        THEN (IF k % 2 = 0 THEN IntDouble(WIDTH - 1) ELSE IntDouble(HEIGHT - 2))
        ELSE IF image = "outside" /\ i = NUM_INTERPOLATION_POINTS - 1
        THEN (IF k % 2 = 0 THEN QuarterDouble(2) ELSE IntDouble(HEIGHT))
        ELSE QuarterDouble(q)

\* <directory>/coordinates.raw, big-endian.
coordinatesFile(image) ==
    IF image = "absent" THEN AbsentFile
    ELSE FileOfWords([k \in 1..(2 * NUM_INTERPOLATION_POINTS) |-> CoordinateWord(image, k - 1)],
                     8, "big")

ExpectedImages == {"zeros", "mixed", "absent", "short"}

ExpectedWord(image, k) ==
    IF image = "mixed"
    THEN (IF k % 3 = 0 THEN SentinelDouble((k \div 3) % 4) ELSE QuarterDouble(2))
    ELSE QuarterDouble(0)

\* <directory>/expected-results.raw, big-endian.
expectedResultsFile(image) ==
    LET full == FileOfWords([k \in 1..(NUM_INTERPOLATION_POINTS * NUM_VERIFIED_ITERATIONS) |->
                                ExpectedWord(image, k - 1)], 8, "big")
    IN  IF image = "absent" THEN AbsentFile
        ELSE IF image = "short" THEN Truncated(full)
        ELSE full

\* ------------------------------------------------------------------------
\* double arithmetic
\* ------------------------------------------------------------------------

\* (double) n for an int n.
IntToDouble(n) ==
    IF n > DMAX \div SCALE THEN DMAX
    ELSE IF n < -(DMAX \div SCALE) THEN -DMAX
    ELSE n * SCALE

\* a < b, a >= b and a != b on doubles: every comparison with a NaN is false,
\* except != which is true.
DLess(a, b) == ~isnan(a) /\ ~isnan(b) /\ a < b

DGeq(a, b) == ~isnan(a) /\ ~isnan(b) /\ a >= b

DNeq(a, b) == isnan(a) \/ isnan(b) \/ a # b

\* std::max(a, b) is (a < b) ? b : a.
StdMax(a, b) == IF DLess(a, b) THEN b ELSE a

DSub(a, b) == IF isnan(a) \/ isnan(b) THEN NaN ELSE Saturate(a - b)

DAdd(a, b) == IF isnan(a) \/ isnan(b) THEN NaN ELSE Saturate(a + b)

DAbs(a) == IF isnan(a) THEN NaN ELSE Abs(a)

\* std::floor(d), as the int the code casts it to.
floor(d) == d \div SCALE

\* std::fma(a, b, c): a*b + c with a single rounding.
fma(a, b, c) ==
    IF isnan(a) \/ isnan(b) \/ isnan(c) THEN NaN
    ELSE Saturate(RoundDiv(a * b + c * SCALE, SCALE))

\* std::fmod(a, m) for a >= 0 and an integral m > 0.
fmod(a, m) == IF isnan(a) THEN NaN ELSE a % IntToDouble(m)

\* ------------------------------------------------------------------------
\* One interpolation point
\* ------------------------------------------------------------------------

\* int offset = WIDTH * ((int) yb) + ((int) xb).
Offset(x, y) == WIDTH * floor(y) + floor(x)

\* The bound check made before the raster is read.
OutOfBounds(offset) ==
    offset < 0 \/ offset >= (HEIGHT - 1) * WIDTH + (WIDTH - 1)

\* The indexes of raster[] read for v00, v01, v10, v11.
CornerIndexes(offset) == <<offset, offset + 1, offset + WIDTH, offset + WIDTH + 1>>

\* Whether raster[idx] lies inside the WIDTH * HEIGHT floats of the buffer.
InRaster(idx) == idx >= 0 /\ idx < WIDTH * HEIGHT

\* What a read past the end of the raster buffer may find there: some valid
\* sample or some missing-value marker of the codec (or the process faults,
\* see PointOutcomes).
Garbage(nan) ==
    {ToInt32(ValidFloats[2]), ToInt32(IF nan THEN NaNWord(2) ELSE SentinelWord(2))}

\* The possible values of the four corners, as bit patterns.
CornerReads(raster, idx, nan) ==
    LET outside == {k \in 1..4 : ~InRaster(idx[k])}
    IN  {[k \in 1..4 |-> IF k \in outside THEN g[k] ELSE raster[idx[k] + 1]] :
            g \in [outside -> Garbage(nan)]}

\* v0 = fma(v01 - v00, xf, v00); v1 = fma(v11 - v10, xf, v10);
\* result = fma(v1 - v0, yf, v0).
Bilinear(v00, v01, v10, v11, xf, yf) ==
    LET v0 == fma(DSub(v01, v00), xf, v00)
        v1 == fma(DSub(v11, v10), xf, v10)
    IN  fma(DSub(v1, v0), yf, v0)

\* TestNaN: the maximum of the four bit patterns, as signed integers.
NaNReason(p) == Max(Max(p[1], p[2]), Max(p[3], p[4]))

\* TestNaN: double nodata = (missingValueReason - FIRST_QUIET_NAN) + MISSING_VALUE_THRESHOLD.
NaNToNodata(missingValueReason) ==
    IntToDouble((missingValueReason - FIRST_QUIET_NAN) + MISSING_VALUE_THRESHOLD)

\* NodataReason that leaves the bottom-right corner out of the maximum.
NodataReason_ThreeCorners(v) == StdMax(StdMax(v[1], v[2]), v[3])

\* TestNodata: float missingValueReason = max(max(v00, v01), max(v10, v11)).
NodataReason(v) == StdMax(StdMax(v[1], v[2]), StdMax(v[3], v[4]))

\* CompareValid that keeps the error of the last point instead of the
\* largest one.
CompareValid_LastError(result, expected, stats) ==
    IF DGeq(expected, IntToDouble(MISSING_VALUE_THRESHOLD))
    THEN <<1, stats>>
    ELSE <<0, DAbs(DSub(result, expected))>>

\* CompareValid with expected > MISSING_VALUE_THRESHOLD instead of >=.
CompareValid_StrictThreshold(result, expected, stats) ==
    IF DGeq(expected, IntToDouble(MISSING_VALUE_THRESHOLD))
       /\ expected # IntToDouble(MISSING_VALUE_THRESHOLD)
    THEN <<1, stats>>
    ELSE <<0, StdMax(stats, DAbs(DSub(result, expected)))>>

\* The comparison of an interpolated (not missing) result with the expected
\* value: <<increment of nodataMismatches[it], new stats>>.
CompareValid(result, expected, stats) ==
    IF DGeq(expected, IntToDouble(MISSING_VALUE_THRESHOLD))
    THEN <<1, stats>>
    ELSE <<0, StdMax(stats, DAbs(DSub(result, expected)))>>

\* The comparison of a missing result, given as its "no data" value, with
\* the expected value; the result becomes 1.
CompareMissing(nodata, expected, stats) ==
    <<IF DNeq(nodata, expected) THEN 1 ELSE 0, stats>>

\* The body of the inner loop of TestNaN::computeAndCompare after the four
\* reads: interpolate unconditionally, then check for NaN.
NaNPointResult(p, x, y, expected, stats) ==
    LET xf == DSub(x, IntToDouble(floor(x)))
        yf == DSub(y, IntToDouble(floor(y)))
        v  == [k \in 1..4 |-> FloatValue(p[k])]
        result == Bilinear(v[1], v[2], v[3], v[4], xf, yf)
        nodata == NaNToNodata(NaNReason(p))
        c == IF isnan(result) THEN CompareMissing(nodata, expected, stats)
             ELSE CompareValid(result, expected, stats)
    IN  [missing  |-> isnan(result),
         compared |-> IF isnan(result) THEN nodata ELSE result,
         mismatch |-> c[1],
         stats    |-> c[2],
         result   |-> IF isnan(result) THEN IntToDouble(1) ELSE result]

\* NodataPointResult that moves the point by the sentinel value instead of 1.
NodataPointResult_FeedsSentinel(p, x, y, expected, stats) ==
    LET v  == [k \in 1..4 |-> FloatValue(p[k])]
        missingValueReason == StdMax(StdMax(v[1], v[2]), StdMax(v[3], v[4]))
        missing == DGeq(missingValueReason, IntToDouble(MISSING_VALUE_THRESHOLD))
        xf == DSub(x, IntToDouble(floor(x)))
        yf == DSub(y, IntToDouble(floor(y)))
        result == Bilinear(v[1], v[2], v[3], v[4], xf, yf)
        c == IF missing THEN CompareMissing(missingValueReason, expected, stats)
             ELSE CompareValid(result, expected, stats)
    IN  [missing  |-> missing,
         compared |-> IF missing THEN missingValueReason ELSE result,
         mismatch |-> c[1],
         stats    |-> c[2],
         result   |-> IF missing THEN missingValueReason ELSE result]

\* The body of the inner loop of TestNodata::computeAndCompare after the four
\* reads: check the maximum against the threshold, interpolate only if valid.
NodataPointResult(p, x, y, expected, stats) ==
    LET v  == [k \in 1..4 |-> FloatValue(p[k])]
        missingValueReason == NodataReason(v)
        missing == DGeq(missingValueReason, IntToDouble(MISSING_VALUE_THRESHOLD))
        xf == DSub(x, IntToDouble(floor(x)))
        yf == DSub(y, IntToDouble(floor(y)))
        result == Bilinear(v[1], v[2], v[3], v[4], xf, yf)
        c == IF missing THEN CompareMissing(missingValueReason, expected, stats)
             ELSE CompareValid(result, expected, stats)
    IN  [missing  |-> missing,
         compared |-> IF missing THEN missingValueReason ELSE result,
         mismatch |-> c[1],
         stats    |-> c[2],
         result   |-> IF missing THEN IntToDouble(1) ELSE result]

PointResult(nan, p, x, y, expected, stats) ==
    IF nan THEN NaNPointResult(p, x, y, expected, stats)
    ELSE NodataPointResult(p, x, y, expected, stats)

\* Feedback that wraps at the raster's size instead of size - 1.
Feedback_FullSize(c, result, size) == fmod(DAbs(DAdd(c, result)), size)

\* coordinates[ix] = fmod(abs(x + result), WIDTH - 1), and the same for y
\* with HEIGHT - 1.
Feedback(c, result, size) == fmod(DAbs(DAdd(c, result)), size - 1)

\* ------------------------------------------------------------------------
\* State
\* ------------------------------------------------------------------------

VARIABLES
    native,     \* std::endian::native of the build: "big" or "little"
    disk,       \* which image each file of ../generated-data holds
    run,        \* per test case: its fields and the locals of computeAndCompare
    t,          \* loop variable of testAndCompare
    success,    \* local variable `success` of testAndCompare
    output,     \* what has been printed on std::cout, in order
    fn          \* argument and result of a function applied on its own

vars == <<native, disk, run, t, success, output, fn>>

Iterations == 1..NUM_VERIFIED_ITERATIONS

\* The record of the last point processed by a run (none yet: done = FALSE).
NoPoint ==
    [done |-> FALSE, it |-> 0, i |-> 0, x |-> 0, y |-> 0, offset |-> 0,
     indexes |-> <<>>, corners |-> <<>>, expected |-> 0, missing |-> FALSE,
     compared |-> 0, result |-> 0]

\* A test case after TestCase::TestCase: statistics zeroed, nothing loaded.
\* pc is "new" before computeAndCompare, "loop" inside its loops, "returned"
\* after it, "exit" after exit(1) and "fault" after a faulting read.
NewTestCase ==
    [pc |-> "new",
     raster |-> NULL, coordinates |-> NULL, expectedResults |-> NULL,
     expectedResultCursor |-> 0, it |-> 0, i |-> 0, stats |-> 0,
     errorStatistics  |-> [k \in Iterations |-> 0],
     nodataMismatches |-> [k \in Iterations |-> 0],
     last |-> NoPoint]

\* The process has ended in exit(1) or in a fault.
Aborted == \E h \in Harness : run[h].pc \in {"exit", "fault"}

NoCall == [name |-> "none", arg |-> <<>>, ret |-> <<>>]

\* ------------------------------------------------------------------------
\* computeAndCompare
\* ------------------------------------------------------------------------

\* AllLoaded without the test of expectedResults.
AllLoaded_IgnoresExpected(raster, coordinates, expectedResults) ==
    raster # NULL /\ coordinates # NULL

\* if (raster) { if (coordinates) { if (expectedResults) { ... } } }
AllLoaded(raster, coordinates, expectedResults) ==
    raster # NULL /\ coordinates # NULL /\ expectedResults # NULL

\* Test case r of kind h after the three loads of computeAndCompare: inside
\* the loops when all buffers are there; otherwise everything loaded is freed
\* and the method returns.
AfterLoad(r, h) ==
    LET raster == loadRaster(rasterFile(disk.raster[h], h), byteOrder(h), native)
        coordinates == loadCoordinates(coordinatesFile(disk.coordinates[directory(h)]), native)
        expectedResults == loadExpectedResults(expectedResultsFile(disk.expected[directory(h)]), native)
    IN  IF AllLoaded(raster, coordinates, expectedResults)
        THEN [r EXCEPT !.pc = "loop", !.raster = raster, !.coordinates = coordinates,
                       !.expectedResults = expectedResults, !.expectedResultCursor = 0,
                       !.it = 0, !.i = 0, !.stats = r.errorStatistics[1]]
        ELSE [r EXCEPT !.pc = "returned"]

\* AfterPoint whose cursor stays on the expected value when the point is
\* classified missing.
AfterPoint_CursorOnValidOnly(r, nan, offset, p) ==
    LET ix == 2 * r.i
        iy == ix + 1
        x  == r.coordinates[ix + 1]
        y  == r.coordinates[iy + 1]
        expected == r.expectedResults[r.expectedResultCursor + 1]
        res == PointResult(nan, p, x, y, expected, r.stats)
    IN  [r EXCEPT
            !.nodataMismatches[r.it + 1] = @ + res.mismatch,
            !.stats = res.stats,
            !.coordinates[ix + 1] = Feedback(x, res.result, WIDTH),
            !.coordinates[iy + 1] = Feedback(y, res.result, HEIGHT),
            !.expectedResultCursor = IF res.missing THEN @ ELSE @ + 1,
            !.i = @ + 1,
            !.last = [done |-> TRUE, it |-> r.it, i |-> r.i, x |-> x, y |-> y,
                      offset |-> offset, indexes |-> CornerIndexes(offset),
                      corners |-> p, expected |-> expected,
                      missing |-> res.missing, compared |-> res.compared,
                      result |-> res.result]]

\* Test case r after one point whose four corners were read as p.
AfterPoint(r, nan, offset, p) ==
    LET ix == 2 * r.i
        iy == ix + 1
        x  == r.coordinates[ix + 1]
        y  == r.coordinates[iy + 1]
        expected == r.expectedResults[r.expectedResultCursor + 1]
        res == PointResult(nan, p, x, y, expected, r.stats)
    IN  [r EXCEPT
            !.nodataMismatches[r.it + 1] = @ + res.mismatch,
            !.stats = res.stats,
            !.coordinates[ix + 1] = Feedback(x, res.result, WIDTH),
            !.coordinates[iy + 1] = Feedback(y, res.result, HEIGHT),
            !.expectedResultCursor = @ + 1,
            !.i = @ + 1,
            !.last = [done |-> TRUE, it |-> r.it, i |-> r.i, x |-> x, y |-> y,
                      offset |-> offset, indexes |-> CornerIndexes(offset),
                      corners |-> p, expected |-> expected,
                      missing |-> res.missing, compared |-> res.compared,
                      result |-> res.result]]

\* Every way one pass through the inner loop body can end for test case r:
\* exit(1) when the bound check fails; otherwise the point is processed.  A
\* read past the end of the buffer is undefined: it yields some value or
\* the process faults.
PointOutcomes(r, nan) ==
    LET x == r.coordinates[2 * r.i + 1]
        y == r.coordinates[2 * r.i + 2]
        offset == Offset(x, y)
        idx == CornerIndexes(offset)
    IN  IF OutOfBounds(offset)
        THEN {[r EXCEPT !.pc = "exit",
                        !.last = [NoPoint EXCEPT !.it = r.it, !.i = r.i, !.x = x, !.y = y,
                                                 !.offset = offset]]}
        ELSE {AfterPoint(r, nan, offset, p) : p \in CornerReads(r.raster, idx, nan)}
             \cup (IF \A k \in 1..4 : InRaster(idx[k]) THEN {}
                   ELSE {[r EXCEPT !.pc = "fault"]})

\* Test case r after the inner loop: errorStatistics[it] = stats, then the
\* next iteration, or the buffers are freed and the method returns.
AfterIteration(r) ==
    LET stored == [r EXCEPT !.errorStatistics[r.it + 1] = r.stats]
    IN  IF r.it + 1 < NUM_VERIFIED_ITERATIONS
        THEN [stored EXCEPT !.it = r.it + 1, !.i = 0,
                            !.stats = r.errorStatistics[r.it + 2]]
        ELSE [stored EXCEPT !.it = r.it + 1, !.pc = "returned",
                            !.raster = NULL, !.coordinates = NULL,
                            !.expectedResults = NULL]

\* ------------------------------------------------------------------------
\* TestCase::success, TestCase::resultEquals
\* ------------------------------------------------------------------------

\* success() without the tolerance for the last iterations.
TestCaseSuccess_NoTolerance(this) ==
    \A k \in 0..(NUM_VERIFIED_ITERATIONS - 1) : ~(this.nodataMismatches[k + 1] # 0)

\* bool TestCase::success(), on test case `this`.
TestCaseSuccess(this) ==
    \A k \in 0..(NUM_VERIFIED_ITERATIONS - 1) :
        ~(this.nodataMismatches[k + 1] # 0 /\ k < 8)

\* resultEquals that compares the mismatch counts only.
resultEquals_MismatchesOnly(this, other) ==
    \A k \in 0..(NUM_VERIFIED_ITERATIONS - 1) :
        ~(this.nodataMismatches[k + 1] # other.nodataMismatches[k + 1])

\* bool TestCase::resultEquals(TestCase* other), on test case `this`.
resultEquals(this, other) ==
    \A k \in 0..(NUM_VERIFIED_ITERATIONS - 1) :
        ~(DNeq(this.errorStatistics[k + 1], other.errorStatistics[k + 1])
          \/ this.nodataMismatches[k + 1] # other.nodataMismatches[k + 1])

\* ------------------------------------------------------------------------
\* TestNodata::testAndCompare
\* ------------------------------------------------------------------------

StatisticsOf(h) == [line |-> "statistics", test |-> h]

BannerSuccess == [line |-> "Success (mismatches in the last iterations are normal).", test |-> -1]

BannerFailure == [line |-> "TEST FAILURE.", test |-> -1]

\* AfterCheck with `success = test->success()` instead of `success &= ...`.
AfterCheck_Overwrites(ok, out, reference, test, h) ==
    IF ~resultEquals(reference, test)
    THEN <<FALSE, Append(out, [line |-> "statistics", test |-> h])>>
    ELSE <<TestCaseSuccess(test), out>>

\* AfterCheck that prints the statistics whenever either check fails.
AfterCheck_PrintsEveryFailure(ok, out, reference, test, h) ==
    IF ~resultEquals(reference, test) \/ ~TestCaseSuccess(test)
    THEN <<FALSE, Append(out, [line |-> "statistics", test |-> h])>>
    ELSE <<ok, out>>

\* <<success, output>> after the two checks that follow test->computeAndCompare().
AfterCheck(ok, out, reference, test, h) ==
    LET ok1 == ok /\ TestCaseSuccess(test)
    IN  IF ~resultEquals(reference, test)
        THEN <<FALSE, Append(out, StatisticsOf(h))>>
        ELSE <<ok1, out>>

\* computeAndCompare of test case t starts: the three files are loaded.
LoadBuffers ==
    /\ t \in Harness
    /\ ~Aborted
    /\ run[t].pc = "new"
    /\ run' = [run EXCEPT ![t] = AfterLoad(run[t], t)]
    /\ UNCHANGED <<native, disk, t, success, output, fn>>

\* One pass through the inner loop body.
Point ==
    /\ t \in Harness
    /\ ~Aborted
    /\ run[t].pc = "loop"
    /\ run[t].i < NUM_INTERPOLATION_POINTS
    /\ \E r \in PointOutcomes(run[t], useNaN(t)) : run' = [run EXCEPT ![t] = r]
    /\ UNCHANGED <<native, disk, t, success, output, fn>>

\* The end of one pass through the outer loop body.
EndIteration ==
    /\ t \in Harness
    /\ ~Aborted
    /\ run[t].pc = "loop"
    /\ run[t].i = NUM_INTERPOLATION_POINTS
    /\ run' = [run EXCEPT ![t] = AfterIteration(run[t])]
    /\ UNCHANGED <<native, disk, t, success, output, fn>>

\* success &= test->success(); if (!resultEquals(test)) {...}; t++.
Check ==
    /\ t \in Harness
    /\ run[t].pc = "returned"
    /\ LET c == AfterCheck(success, output, run[0], run[t], t)
       IN  /\ success' = c[1]
           /\ output' = c[2]
    /\ t' = t + 1
    /\ UNCHANGED <<native, disk, run, fn>>

\* After the loop: the statistics of nanBigEndian and the success line, or
\* the failure line.
Report ==
    /\ t = 4
    /\ output' = IF success
                 THEN Append(Append(output, StatisticsOf(2)), BannerSuccess)
                 ELSE Append(output, BannerFailure)
    /\ t' = 5
    /\ UNCHANGED <<native, disk, run, success, fn>>

Orders == {"big", "little"}

\* The disk whose rasters all hold image L and whose two directories hold
\* the same coordinates C and the same expected results E.
UniformDisk(L, C, E) ==
    [raster      |-> [h \in Harness |-> L],
     coordinates |-> [d \in Directories |-> C],
     expected    |-> [d \in Directories |-> E]]

\* The disks the runs start from: complete data sets whose rasters differ
\* from one test case to the other, data sets with one file missing or cut
\* short, with coordinates on or beyond the raster's edge, with directories
\* that disagree, an empty directory, and data sets whose results are all
\* exact, complete or with one raster missing.
Disks ==
    {[UniformDisk("valid", "inside", E) EXCEPT !.raster = r] :
        r \in [Harness -> {"valid", "mixed"}], E \in {"zeros", "mixed"}}
    \cup {[UniformDisk(L, "inside", "zeros") EXCEPT !.raster[h] = img] :
        L \in {"valid", "mixed"}, h \in Harness, img \in {"absent", "short"}}
    \cup {[UniformDisk(L, "inside", E) EXCEPT !.coordinates[d] = C] :
        L \in {"valid", "mixed"}, E \in {"zeros", "mixed"}, d \in Directories,
        C \in {"absent", "edge", "outside"}}
    \cup {UniformDisk(L, C, E) :
        L \in {"valid", "mixed"}, C \in {"edge", "outside"}, E \in {"zeros", "mixed"}}
    \cup {[UniformDisk(L, "inside", "zeros") EXCEPT !.expected[d] = E] :
        L \in {"valid", "mixed"}, d \in Directories, E \in {"absent", "short", "mixed"}}
    \cup {UniformDisk("absent", C, E) : C \in {"inside", "absent"}, E \in {"zeros", "absent"}}
    \cup {[UniformDisk("flat", "inside", "zeros") EXCEPT !.raster[h] = img] :
        h \in Harness, img \in {"flat", "absent"}}

Init ==
    /\ native \in Orders
    /\ disk \in Disks
    /\ run = [h \in Harness |-> NewTestCase]
    /\ t = 0
    /\ success = TRUE
    /\ output = <<>>
    /\ fn = NoCall

Next == LoadBuffers \/ Point \/ EndIteration \/ Check \/ Report

Spec == Init /\ [][Next]_vars

\* ------------------------------------------------------------------------
\* TestNodata::computeAndCompare and TestNaN::computeAndCompare side by side
\* ------------------------------------------------------------------------

\* Test cases 0 (sentinel values, big-endian) and 2 (NaN, big-endian) run on
\* the same logical input: the same raster image in both encodings, the same
\* coordinates and the same expected results.
EquivInit ==
    /\ native \in Orders
    /\ disk \in {UniformDisk(L, C, E) :
                    L \in {"valid", "mixed"}, C \in {"inside", "edge", "outside"},
                    E \in {"zeros", "mixed"}}
    /\ run = [h \in Harness |-> NewTestCase]
    /\ t = 0
    /\ success = TRUE
    /\ output = <<>>
    /\ fn = NoCall

BothIn(pc) == run[0].pc = pc /\ run[2].pc = pc

EquivLoad ==
    /\ BothIn("new")
    /\ run' = [run EXCEPT ![0] = AfterLoad(run[0], 0), ![2] = AfterLoad(run[2], 2)]
    /\ UNCHANGED <<native, disk, t, success, output, fn>>

EquivPoint ==
    /\ BothIn("loop")
    /\ run[0].i < NUM_INTERPOLATION_POINTS
    /\ run[2].i < NUM_INTERPOLATION_POINTS
    /\ \E a \in PointOutcomes(run[0], useNaN(0)), b \in PointOutcomes(run[2], useNaN(2)) :
            run' = [run EXCEPT ![0] = a, ![2] = b]
    /\ UNCHANGED <<native, disk, t, success, output, fn>>

EquivEndIteration ==
    /\ BothIn("loop")
    /\ run[0].i = NUM_INTERPOLATION_POINTS
    /\ run[2].i = NUM_INTERPOLATION_POINTS
    /\ run' = [run EXCEPT ![0] = AfterIteration(run[0]), ![2] = AfterIteration(run[2])]
    /\ UNCHANGED <<native, disk, t, success, output, fn>>

EquivNext == EquivLoad \/ EquivPoint \/ EquivEndIteration

SpecEquiv == EquivInit /\ [][EquivNext]_vars

\* ------------------------------------------------------------------------
\* Functions applied on their own
\* ------------------------------------------------------------------------

\* Everything but fn, at rest.
Idle ==
    /\ native = "little"
    /\ disk = UniformDisk("absent", "absent", "absent")
    /\ t = 0
    /\ success = TRUE
    /\ output = <<>>

\* TestCase::success() on a test case with any statistics.
SomeMismatches == [Iterations -> {0, 1}]

SomeErrors == {[k \in Iterations |-> 0], [k \in Iterations |-> k * SCALE]}

SuccessInit ==
    /\ Idle
    /\ \E nm \in SomeMismatches, es \in SomeErrors :
          run = [h \in Harness |->
                    IF h = 0
                    THEN [NewTestCase EXCEPT !.pc = "returned",
                                             !.nodataMismatches = nm,
                                             !.errorStatistics = es]
                    ELSE NewTestCase]
    /\ fn = [name |-> "success", arg |-> <<>>, ret |-> <<>>]

CallSuccess ==
    /\ fn.name = "success"
    /\ fn.ret = <<>>
    /\ fn' = [fn EXCEPT !.ret = <<TestCaseSuccess(run[0])>>]
    /\ UNCHANGED <<native, disk, run, t, success, output>>

SpecSuccess == SuccessInit /\ [][CallSuccess]_vars

\* The two byte swaps, applied once and then once more to the result.
SomeBytes32 == {0, 1, 127, 128, 255}

SomeBytes64 == {0, 129, 255}

SwapInit ==
    /\ Idle
    /\ run = [h \in Harness |-> NewTestCase]
    /\ \/ \E w \in [1..4 -> SomeBytes32] : fn = [name |-> "swap32", arg |-> w, ret |-> <<>>]
       \/ \E w \in [1..8 -> SomeBytes64] : fn = [name |-> "swap64", arg |-> w, ret |-> <<>>]

Latest == IF fn.ret = <<>> THEN fn.arg ELSE fn.ret[Len(fn.ret)]

CallSwap32 ==
    /\ fn.name = "swap32"
    /\ Len(fn.ret) < 2
    /\ fn' = [fn EXCEPT !.ret = Append(@, Swap32(Latest))]
    /\ UNCHANGED <<native, disk, run, t, success, output>>

CallSwap64 ==
    /\ fn.name = "swap64"
    /\ Len(fn.ret) < 2
    /\ fn' = [fn EXCEPT !.ret = Append(@, Swap64(Latest))]
    /\ UNCHANGED <<native, disk, run, t, success, output>>

SwapNext == CallSwap32 \/ CallSwap64

SpecSwap == SwapInit /\ [][SwapNext]_vars

\* One point of either variant on any four corners: each corner is a valid
\* sample or missing for one of the four reasons.
LogicalCells == {<<-1, j>> : j \in 1..Len(ValidFloats)} \cup {<<r, 1>> : r \in Reasons}

PatternOf(nan, c) ==
    ToInt32(IF c[1] < 0 THEN ValidFloats[c[2]]
            ELSE IF nan THEN NaNWord(c[1]) ELSE SentinelWord(c[1]))

SomePositions == {<<0, 0>>, <<2, 1>>}

CodecInit ==
    /\ Idle
    /\ run = [h \in Harness |-> NewTestCase]
    /\ \E nan \in BOOLEAN, cells \in [1..4 -> LogicalCells], xy \in SomePositions :
          fn = [name |-> "point",
                arg  |-> [nan |-> nan, cells |-> cells, x |-> xy[1], y |-> xy[2],
                          expected |-> IntToDouble(MISSING_VALUE_THRESHOLD + 1)],
                ret  |-> <<>>]

CallPoint ==
    /\ fn.name = "point"
    /\ fn.ret = <<>>
    /\ LET a == fn.arg
           p == [k \in 1..4 |-> PatternOf(a.nan, a.cells[k])]
       IN  fn' = [fn EXCEPT !.ret = <<PointResult(a.nan, p, a.x, a.y, a.expected, 0)>>]
    /\ UNCHANGED <<native, disk, run, t, success, output>>

SpecCodec == CodecInit /\ [][CallPoint]_vars

\* ------------------------------------------------------------------------
\* Properties
\* ------------------------------------------------------------------------

Printed(line) == \E k \in 1..Len(output) : output[k] = line

\* The reason index a corner's bit pattern stands for under the codec, -1
\* for a pattern that is no missing-value marker.
ReasonIndex(nan, pattern) ==
    IF \E r \in Reasons : pattern = PatternOf(nan, <<r, 1>>)
    THEN CHOOSE r \in Reasons : pattern = PatternOf(nan, <<r, 1>>)
    ELSE -1

\* The highest reason index among four corners, -1 when all are valid.
DominantReason(nan, corners) ==
    LET rs == {ReasonIndex(nan, corners[k]) : k \in 1..4}
    IN  CHOOSE r \in rs : \A q \in rs : q <= r

\* Test case h has just completed one point (in the step from the unprimed
\* to the primed state).
PointDone(h) ==
    /\ run[h].pc = "loop"
    /\ run'[h].pc = "loop"
    /\ run'[h].expectedResultCursor = run[h].expectedResultCursor + 1

\* Both conditions testAndCompare checks on test case h.
BothConditions(h) == TestCaseSuccess(run[h]) /\ resultEquals(run[0], run[h])

\* C1: testAndCompare prints the success line, and not the failure line, if
\* and only if every one of the four test cases has success() true after its
\* computeAndCompare and statistics equal to the reference's; while the test
\* cases are run, `success` is true exactly when all those already checked
\* satisfied both conditions, so no later test case undoes a failure.
C1_OverallSuccess ==
    /\ t <= 4 => (success <=> \A h \in 0..(t - 1) : BothConditions(h))
    /\ t = 5 => /\ Printed(BannerSuccess) <=> \A h \in Harness : BothConditions(h)
                /\ Printed(BannerFailure) <=> ~(\A h \in Harness : BothConditions(h))

\* A failed run in which the two test cases after the offending one satisfy
\* both conditions.
C1_Witness ==
    /\ t = 5
    /\ Printed(BannerFailure)
    /\ BothConditions(0)
    /\ ~BothConditions(1)
    /\ BothConditions(2)
    /\ BothConditions(3)
    /\ \E k \in Iterations : run[0].errorStatistics[k] # 0

\* C2: on identical logical input the sentinel variant and the NaN variant
\* hold the same coordinates after every point and the same errorStatistics
\* and nodataMismatches.
C2_SameResults ==
    (run[0].pc \in {"loop", "returned"} /\ run[2].pc \in {"loop", "returned"})
        => /\ run[0].coordinates = run[2].coordinates
           /\ run[0].errorStatistics = run[2].errorStatistics
           /\ run[0].nodataMismatches = run[2].nodataMismatches

\* C3: no point is processed whose 2x2 neighbourhood leaves the raster: every
\* index read lies in [0, (HEIGHT-1)*WIDTH + (WIDTH-1)].
C3_ReadsStayInside ==
    \A h \in Harness :
        run[h].last.done =>
            \A k \in 1..4 :
                /\ run[h].last.indexes[k] >= 0
                /\ run[h].last.indexes[k] <= (HEIGHT - 1) * WIDTH + (WIDTH - 1)

\* C4: under both codecs, when at least one of the four corners is missing
\* the point is classified missing and the value compared against the
\* expected result is MISSING_VALUE_THRESHOLD + r, r the highest reason
\* index among the missing corners, whatever the valid corners hold.
C4_DominantReason ==
    (fn.name = "point" /\ fn.ret # <<>>) =>
        LET rs  == {fn.arg.cells[k][1] : k \in 1..4}
            top == CHOOSE r \in rs : \A q \in rs : q <= r
        IN  top >= 0 =>
                /\ fn.ret[1].missing
                /\ fn.ret[1].compared = (MISSING_VALUE_THRESHOLD + top) * SCALE

\* The NaN variant on a negative valid sample, a CLOUD and a LAND corner.
C4_Witness ==
    /\ fn.name = "point"
    /\ fn.ret # <<>>
    /\ fn.arg.nan
    /\ fn.arg.cells = << <<-1, 1>>, <<1, 1>>, <<-1, 2>>, <<2, 1>> >>
    /\ FloatValue(PatternOf(TRUE, fn.arg.cells[1])) < 0
    /\ PatternOf(TRUE, fn.arg.cells[1]) < 0
    /\ fn.ret[1].compared = (MISSING_VALUE_THRESHOLD + 2) * SCALE

\* C5: a processed point adds one to nodataMismatches[it] when the computed
\* result is missing and its reason-derived value differs from the expected
\* value, or when it is valid and the expected value is at least
\* MISSING_VALUE_THRESHOLD, and adds nothing otherwise; the maximum absolute
\* error becomes max(current, |result - expected|) when both are valid and is
\* unchanged otherwise.
C5_Accounting ==
    [][\A h \in Harness :
          PointDone(h) =>
            LET l   == run'[h].last
                top == DominantReason(useNaN(h), l.corners)
                expectedMissing == l.expected >= MISSING_VALUE_THRESHOLD * SCALE
                inc == IF top >= 0
                       THEN (IF (MISSING_VALUE_THRESHOLD + top) * SCALE # l.expected THEN 1 ELSE 0)
                       ELSE (IF expectedMissing THEN 1 ELSE 0)
            IN  /\ run'[h].nodataMismatches =
                       [run[h].nodataMismatches EXCEPT ![run[h].it + 1] = @ + inc]
                /\ run'[h].stats =
                       IF top < 0 /\ ~expectedMissing
                       THEN Max(run[h].stats, Abs(l.compared - l.expected))
                       ELSE run[h].stats
                /\ run'[h].errorStatistics = run[h].errorStatistics]_vars

\* A missing result met a valid expected value and was counted.
C5_Witness ==
    \E h \in Harness :
        /\ run[h].pc = "loop"
        /\ run[h].last.done
        /\ run[h].last.missing
        /\ run[h].last.expected < MISSING_VALUE_THRESHOLD * SCALE
        /\ run[h].nodataMismatches[run[h].last.it + 1] >= 1
        /\ run[h].stats > 0

\* C6: success() is true if and only if nodataMismatches[i] = 0 for every
\* i < 8, whatever iterations 8 and 9 and errorStatistics hold.
C6_SuccessIffFirstEight ==
    (fn.name = "success" /\ fn.ret # <<>>) =>
        (fn.ret[1] <=> \A k \in 0..7 : run[0].nodataMismatches[k + 1] = 0)

\* success() is true with mismatches in iterations 8 and 9 and errors.
C6_Witness ==
    /\ fn.name = "success"
    /\ fn.ret = <<TRUE>>
    /\ run[0].nodataMismatches[9] = 1
    /\ run[0].nodataMismatches[10] = 1
    /\ run[0].errorStatistics[1] # 0

\* C7 as stated: every test case already checked that violates either
\* condition has had its statistics printed.
C7_EveryOffenderPrinted ==
    \A h \in Harness :
        (h < t /\ ~BothConditions(h)) => Printed(StatisticsOf(h))

\* C7 as amended: a test case already checked has its statistics printed by
\* the loop if and only if its statistics differ from the reference's.
C7_DifferingPrinted ==
    \A h \in Harness :
        h < t =>
            /\ ~resultEquals(run[0], run[h]) => Printed(StatisticsOf(h))
            /\ (t <= 4 /\ resultEquals(run[0], run[h])) => ~Printed(StatisticsOf(h))

\* The reference fails success() and is not printed; the next test case
\* differs from the reference and is printed.
C7_Witness ==
    /\ t = 5
    /\ ~TestCaseSuccess(run[0])
    /\ ~Printed(StatisticsOf(0))
    /\ ~resultEquals(run[0], run[1])
    /\ Printed(StatisticsOf(1))

\* A file that is absent or holds fewer than numBytes bytes.
Unreadable(file, numBytes) == ~file.exists \/ Len(file.bytes) < numBytes

InputMissing(h) ==
    \/ Unreadable(rasterFile(disk.raster[h], h), WIDTH * HEIGHT * 4)
    \/ Unreadable(coordinatesFile(disk.coordinates[directory(h)]),
                  2 * NUM_INTERPOLATION_POINTS * 8)
    \/ Unreadable(expectedResultsFile(disk.expected[directory(h)]),
                  NUM_INTERPOLATION_POINTS * NUM_VERIFIED_ITERATIONS * 8)

\* C8: when one of its three files is absent or too short, computeAndCompare
\* returns normally without processing any point: the statistics keep their
\* zeros and no coordinate is rewritten.
C8_MissingFileSkipsRun ==
    \A h \in Harness :
        (run[h].pc # "new" /\ InputMissing(h)) =>
            run[h] = [NewTestCase EXCEPT !.pc = "returned"]

\* A run skipped because only the expected results, the last file loaded,
\* are one byte short.
C8_Witness ==
    \E h \in Harness :
        /\ run[h].pc = "returned"
        /\ disk.raster[h] \in {"valid", "mixed"}
        /\ disk.coordinates[directory(h)] = "inside"
        /\ disk.expected[directory(h)] = "short"
        /\ InputMissing(h)

Reverse(w) == [j \in 1..Len(w) |-> w[Len(w) + 1 - j]]

\* C9: each swap reverses the bytes of the element, and the same swap applied
\* to its own result gives the original element back.
C9_SwapReversesAndUndoes ==
    (fn.name \in {"swap32", "swap64"}) =>
        /\ Len(fn.ret) >= 1 => fn.ret[1] = Reverse(fn.arg)
        /\ Len(fn.ret) = 2 => fn.ret[2] = fn.arg

\* A 64-bit element that the swap changes, swapped twice.
C9_Witness ==
    /\ fn.name = "swap64"
    /\ Len(fn.ret) = 2
    /\ fn.arg = <<0, 129, 255, 0, 0, 129, 129, 255>>
    /\ fn.ret[1] # fn.arg
    /\ fn.ret[2] = fn.arg

\* C10: a processed point replaces its own coordinates by
\* fmod(abs(x + r), WIDTH-1) and fmod(abs(y + r), HEIGHT-1), r being the
\* interpolated value when the point is classified valid and 1 when it is
\* classified missing, and leaves the other coordinates alone.
C10_Feedback ==
    [][\A h \in Harness :
          PointDone(h) =>
            LET l  == run'[h].last
                r  == IF l.missing THEN SCALE ELSE l.compared
                ix == 2 * run[h].i + 1
            IN  /\ l.x = run[h].coordinates[ix]
                /\ l.y = run[h].coordinates[ix + 1]
                /\ run'[h].coordinates =
                       [run[h].coordinates EXCEPT
                           ![ix]     = Abs(l.x + r) % ((WIDTH - 1) * SCALE),
                           ![ix + 1] = Abs(l.y + r) % ((HEIGHT - 1) * SCALE)]]_vars

\* A point classified missing under the sentinel codec has been processed.
C10_Witness ==
    \E h \in Harness :
        /\ ~useNaN(h)
        /\ run[h].pc = "loop"
        /\ run[h].last.done
        /\ run[h].last.missing
        /\ run[h].last.compared >= MISSING_VALUE_THRESHOLD * SCALE
        /\ run[h].coordinates[2 * run[h].last.i + 1]
               = (run[h].last.x + SCALE) % ((WIDTH - 1) * SCALE)

\* C2 restricted to runs that read nothing outside the raster: as long as
\* both variants made every read inside the buffer they agree.
C2_SameResultsInsideRaster ==
    (disk.coordinates["nodata"] # "edge") => C2_SameResults

\* ------------------------------------------------------------------------
\* The cursor over the expected results
\* ------------------------------------------------------------------------

\* Test case h goes once through the inner loop body and stays in the loops.
PointStep(h) ==
    /\ run[h].pc = "loop"
    /\ run'[h].pc = "loop"
    /\ run'[h].i = run[h].i + 1

\* C11: every processed point, missing or valid, matching or not, compares
\* the expected result at index it*NUM_INTERPOLATION_POINTS + i, which lies
\* inside the buffer, and moves the cursor forward by exactly one; the cursor
\* never moves backwards, and when the loops finish it has consumed exactly
\* NUM_INTERPOLATION_POINTS * NUM_VERIFIED_ITERATIONS elements.
C11_CursorAdvances ==
    [][\A h \in Harness :
          /\ run'[h].expectedResultCursor >= run[h].expectedResultCursor
          /\ PointStep(h) =>
                LET at == run[h].it * NUM_INTERPOLATION_POINTS + run[h].i
                IN  /\ run[h].expectedResultCursor = at
                    /\ at < Len(run[h].expectedResults)
                    /\ run'[h].last.expected = run[h].expectedResults[at + 1]
                    /\ run'[h].expectedResultCursor = at + 1
          /\ (run[h].pc = "loop" /\ run'[h].pc = "returned") =>
                /\ run'[h].expectedResultCursor
                       = NUM_INTERPOLATION_POINTS * NUM_VERIFIED_ITERATIONS
                /\ run'[h].expectedResultCursor = Len(run[h].expectedResults)]_vars

\* A run has completed after classifying some points missing and some valid,
\* some of them with a mismatch.
C11_Witness ==
    \E h \in Harness :
        /\ run[h].pc = "returned"
        /\ run[h].expectedResultCursor = NUM_INTERPOLATION_POINTS * NUM_VERIFIED_ITERATIONS
        /\ run[h].last.done
        /\ run[h].last.missing
        /\ \E k \in Iterations : run[h].nodataMismatches[k] > 0
        /\ \E k \in Iterations : run[h].errorStatistics[k] > 0

\* ------------------------------------------------------------------------
\* Statistics over the iterations
\* ------------------------------------------------------------------------

\* C12: from one point to the next the maximum absolute error and the
\* mismatch count of the iteration being processed never decrease; the end
\* of the iteration stores that maximum; and the entries of the iterations
\* already finished are never modified again.
C12_StatisticsOnlyGrow ==
    [][\A h \in Harness :
          /\ PointStep(h) =>
                /\ run'[h].it = run[h].it
                /\ run'[h].stats >= run[h].stats
                /\ run'[h].nodataMismatches[run[h].it + 1]
                       >= run[h].nodataMismatches[run[h].it + 1]
          /\ (run[h].pc = "loop" /\ run'[h].it = run[h].it + 1) =>
                /\ run'[h].errorStatistics[run[h].it + 1] = run[h].stats
                /\ run'[h].nodataMismatches[run[h].it + 1]
                       = run[h].nodataMismatches[run[h].it + 1]
          /\ \A k \in 1..run[h].it :
                /\ run'[h].errorStatistics[k] = run[h].errorStatistics[k]
                /\ run'[h].nodataMismatches[k] = run[h].nodataMismatches[k]]_vars

\* A later iteration is under way, with an error and a mismatch of its own,
\* after an earlier iteration finished with an error and a mismatch.
C12_Witness ==
    \E h \in Harness :
        /\ run[h].pc = "loop"
        /\ run[h].it >= 1
        /\ run[h].i >= 1
        /\ run[h].stats > 0
        /\ run[h].nodataMismatches[run[h].it + 1] > 0
        /\ run[h].errorStatistics[1] > 0
        /\ run[h].nodataMismatches[1] > 0

\* ------------------------------------------------------------------------
\* Coordinates under the feedback
\* ------------------------------------------------------------------------

\* The coordinates test case h loads from its directory, before any feedback.
InitialCoordinates(h) ==
    loadCoordinates(coordinatesFile(disk.coordinates[directory(h)]), native)

\* Every pair of c lies in [0, WIDTH-1) x [0, HEIGHT-1).
InsideRaster(c) ==
    /\ c # NULL
    /\ \A k \in 1..Len(c) :
          /\ c[k] >= 0
          /\ c[k] < (IF k % 2 = 1 THEN WIDTH - 1 ELSE HEIGHT - 1) * SCALE

\* C13: when every initial coordinate pair lies in [0, WIDTH-1) x
\* [0, HEIGHT-1), the coordinates stay in that range at every point of every
\* iteration, in both variants: the base cell is at most (WIDTH-2, HEIGHT-2),
\* exit(1) is never reached, no read falls outside the raster, and a
\* coordinate in the last unit before WIDTH-1 or HEIGHT-1 resolves to the
\* last interior column or row.  (Written "conclusion or not premise".)
C13_CoordinatesStayInside ==
    \A h \in Harness :
        \/ /\ run[h].pc \notin {"exit", "fault"}
           /\ run[h].pc = "loop" => InsideRaster(run[h].coordinates)
           /\ run[h].last.done =>
                 LET l == run[h].last
                 IN  /\ l.offset >= 0
                     /\ l.offset % WIDTH <= WIDTH - 2
                     /\ l.offset \div WIDTH <= HEIGHT - 2
                     /\ \A k \in 1..4 : l.indexes[k] \in 0..(WIDTH * HEIGHT - 1)
                     /\ l.x >= (WIDTH - 2) * SCALE => l.offset % WIDTH = WIDTH - 2
                     /\ l.y >= (HEIGHT - 2) * SCALE => l.offset \div WIDTH = HEIGHT - 2
        \/ ~InsideRaster(InitialCoordinates(h))

\* A point whose x, produced by the feedback, is the largest value below
\* WIDTH-1 has been processed in the last interior cell, whose lower right
\* corner is the last element of the raster.
C13_Witness ==
    \E h \in Harness :
        /\ run[h].last.done
        /\ run[h].last.it >= 1
        /\ run[h].last.x = (WIDTH - 1) * SCALE - 1
        /\ run[h].last.offset = (HEIGHT - 2) * WIDTH + (WIDTH - 2)
        /\ run[h].last.indexes[4] = WIDTH * HEIGHT - 1
        /\ InsideRaster(InitialCoordinates(h))

\* ------------------------------------------------------------------------
\* Runs that verify nothing
\* ------------------------------------------------------------------------

\* All statistics of test case r are zero.
AllZero(r) ==
    \A k \in Iterations : r.errorStatistics[k] = 0 /\ r.nodataMismatches[k] = 0

\* C14: when no test case can load its files, all statistics keep their
\* initial zeros, success() holds for each test case, each is resultEquals to
\* the reference, and testAndCompare prints the success line although no
\* point was verified; when the reference loaded its files and another test
\* case did not, that test case is resultEquals to the reference only if
\* (and whenever) the statistics of the reference are all zero.
C14_NothingLoadedStillSucceeds ==
    /\ \/ /\ success
          /\ \A h \in Harness :
                /\ AllZero(run[h])
                /\ run[h].expectedResultCursor = 0
                /\ ~run[h].last.done
                /\ run[h].pc = "returned" => BothConditions(h)
          /\ ~Printed(BannerFailure)
          /\ t = 5 => output = <<StatisticsOf(2), BannerSuccess>>
       \/ \E h \in Harness : ~InputMissing(h)
    /\ \A h \in Harness \ {0} :
          \/ run[0].pc # "returned"
          \/ run[h].pc # "returned"
          \/ resultEquals(run[0], run[h]) <=> AllZero(run[0])
          \/ InputMissing(0)
          \/ ~InputMissing(h)

\* testAndCompare has printed the success line after four test cases that
\* could load nothing.
C14_Witness ==
    /\ t = 5
    /\ success
    /\ Printed(BannerSuccess)
    /\ \A h \in Harness : run[h] = [NewTestCase EXCEPT !.pc = "returned"]
    /\ \A h \in Harness : InputMissing(h)

=============================================================================
